---------------------------- MODULE Spec2Model ----------------------------
(***************************************************************************)
(* A state-machine model of src/src/interfaces/track_battle.py: the call   *)
(* run_track_battle(session, driver1, driver2, playback_speed), the        *)
(* construction of TrackBattleWindow (telemetry preparation, sector        *)
(* markers, animation state) and the event loop's handlers on_update,      *)
(* on_key_press and on_draw.                                               *)
(*                                                                         *)
(* Numbers that are floats in the program (speeds, times, the frame        *)
(* cursor, distances) are exact rationals here, <<numerator, denominator>> *)
(* in lowest terms: halving and doubling a speed are exact in binary       *)
(* floating point, and the rounding of the other float operations is not   *)
(* modelled.                                                               *)
(*                                                                         *)
(* Not modelled, because nothing below reads them: driver names and        *)
(* colours, the three sector split times, the track outline                *)
(* (build_track_from_example_lap, _interpolate_points) and the screen      *)
(* transform (update_scaling, on_resize, world_to_screen).                 *)
(***************************************************************************)
EXTENDS Integers, Sequences, FiniteSets, TLC

(***************************************************************************)
(* Bounds of the model.                                                    *)
(***************************************************************************)
\* longest telemetry trace drawn by InitPrep
MaxLen == 3
\* largest cumulative distance of a telemetry sample drawn by InitPrep
MaxDist == 3
\* a tick's delta_time is k/FPS seconds, k in 0..MaxDt
MaxDt == 2

(***************************************************************************)
(* Exact rational arithmetic.                                              *)
(***************************************************************************)
Abs(n) == IF n < 0 THEN -n ELSE n

Min(a, b) == IF a < b THEN a ELSE b

\* greatest common divisor (Euclid)
GCD[a \in Nat, b \in Nat] == IF b = 0 THEN a ELSE GCD[b, a % b]

\* n/d in lowest terms, d > 0
Normalised[n \in Int, d \in Nat \ {0}] ==
    LET g == GCD[Abs(n), d] IN <<n \div g, d \div g>>

R(n, d) == Normalised[n, d]

RAdd(a, b) == R(a[1] * b[2] + b[1] * a[2], a[2] * b[2])

RSub(a, b) == R(a[1] * b[2] - b[1] * a[2], a[2] * b[2])

RMul(a, b) == R(a[1] * b[1], a[2] * b[2])

\* a / k for an integer k > 0
RDivInt(a, k) == R(a[1], a[2] * k)

RLess(a, b) == a[1] * b[2] < b[1] * a[2]

RLeq(a, b) == a[1] * b[2] <= b[1] * a[2]

RAbs(a) == <<Abs(a[1]), a[2]>>

RMin(a, b) == IF RLess(b, a) THEN b ELSE a

RMax(a, b) == IF RLess(a, b) THEN b ELSE a

\* Python's int(x): truncation towards zero
RInt(a) == IF a[1] >= 0 THEN a[1] \div a[2] ELSE -((-a[1]) \div a[2])

Zero == R(0, 1)

(***************************************************************************)
(* Program constants.                                                      *)
(***************************************************************************)
\* from src.f1_data import FPS (track_battle.py line 3): the fixed frame
\* rate.  src/f1_data.py sets it, 25 frames per second; the properties below
\* hold for any positive value.
FPS == 25

\* the clamp of on_key_press: min(4.0, ...) and max(0.25, ...)
MAX_SPEED == R(4, 1)

MIN_SPEED == R(1, 4)

\* the presets of KEY_1 .. KEY_4
Preset(symbol) ==
    CASE symbol = "KEY_1" -> R(1, 2)
      [] symbol = "KEY_2" -> R(1, 1)
      [] symbol = "KEY_3" -> R(2, 1)
      [] symbol = "KEY_4" -> R(4, 1)

PresetKeys == {"KEY_1", "KEY_2", "KEY_3", "KEY_4"}

SpeedKeys == {"UP", "DOWN"} \cup PresetKeys

\* the symbols on_key_press tests for
Keys == {"SPACE", "R", "ESCAPE"} \cup SpeedKeys

(***************************************************************************)
(* Inputs: the session handed to run_track_battle.                         *)
(***************************************************************************)
Driver1 == "VER"

Driver2 == "LEC"

\* pick_fastest() found no lap: Python's None
NoLap == [valid |-> FALSE]

\* A telemetry trace with the cumulative distances ds: sample i (0-based,
\* as iloc counts) has position (X, Y) = (i, 0), so that a position tells
\* which sample it was copied from.
Telemetry(ds) ==
    [i \in 1..Len(ds) |-> [X |-> i - 1, Y |-> 0, Distance |-> ds[i]]]

Lap(t, ds) == [valid |-> TRUE, LapTime |-> t, tel |-> Telemetry(ds)]

\* cumulative distances are non-decreasing along a lap
DistanceSeqs(L) ==
    {ds \in [1..L -> 0..MaxDist] : \A i \in 1..(L - 1) : ds[i] <= ds[i + 1]}

\* lap times in seconds: 91.234 s and 92.876 s
LapTimes == {R(91234, 1000), R(92876, 1000)}

AllLaps ==
    {NoLap} \cup
    UNION {{Lap(t, ds) : t \in LapTimes, ds \in DistanceSeqs(L)} : L \in 1..MaxLen}

\* the laps of the sessions replayed by Spec
ReplayLaps ==
    {NoLap,
     Lap(R(91234, 1000), <<5>>),
     Lap(R(91234, 1000), <<0, 1, 2>>),
     Lap(R(92876, 1000), <<0, 2>>),
     Lap(R(92876, 1000), <<0, 1, 3, 4>>)}

\* playback_speed arguments, all positive: 1/8, the default 1.0, 3/2 and 16
InitialSpeeds == {R(1, 8), R(1, 1), R(3, 2), R(16, 1)}

DefaultSpeeds == {R(1, 1)}

\* delta_time of a tick, in seconds
DeltaTimes == {R(k, FPS) : k \in 0..MaxDt}

VARIABLES
    pc,                \* where run_track_battle is
    session,           \* argument: [lap1, lap2], what pick_fastest() returns
    speed_arg,         \* argument playback_speed
    window,            \* the arcade window: "none", "open", "closed"
    message,           \* what run_track_battle printed, "" if nothing
    playback_speed,    \* self.playback_speed
    lap1, lap2,        \* self.lap1, self.lap2
    num_points,        \* self.num_points
    positions1_world, positions2_world,
    distances1, distances2,
    time1, time2,
    time_diff, faster_driver,
    sector_markers,
    frame_index, paused,
    event,             \* the event the loop dispatched last
    elapsed,           \* history: seconds of Running ticks since the cursor was last set to 0
    steady             \* history: the speed has not been touched since then

prepared == <<lap1, lap2, num_points, positions1_world, positions2_world,
              distances1, distances2, time1, time2, time_diff, faster_driver,
              sector_markers>>

animation == <<frame_index, paused, playback_speed>>

history == <<elapsed, steady>>

vars == <<pc, session, speed_arg, window, message, prepared, animation, event, history>>

NoEvent == [type |-> "none"]

InitWith(laps, speeds) ==
    /\ pc = "start"
    /\ session \in [lap1 : laps, lap2 : laps]
    /\ speed_arg \in speeds
    /\ window = "none"
    /\ message = ""
    /\ playback_speed = <<>>
    /\ lap1 = NoLap
    /\ lap2 = NoLap
    /\ num_points = 0
    /\ positions1_world = <<>>
    /\ positions2_world = <<>>
    /\ distances1 = <<>>
    /\ distances2 = <<>>
    /\ time1 = <<>>
    /\ time2 = <<>>
    /\ time_diff = <<>>
    /\ faster_driver = ""
    /\ sector_markers = <<>>
    /\ frame_index = <<>>
    /\ paused = FALSE
    /\ event = NoEvent
    /\ elapsed = Zero
    /\ steady = FALSE

Init == InitWith(ReplayLaps, InitialSpeeds)

InitPrep == InitWith(AllLaps, DefaultSpeeds)


(***************************************************************************)
(* Telemetry preparation (TrackBattleWindow.__init__).                     *)
(***************************************************************************)
\* mutant: the longer trace's length
NumPointsMax(tel1, tel2) ==
    IF Len(tel1) > Len(tel2) THEN Len(tel1) ELSE Len(tel2)

\* self.num_points = min(len(tel1), len(tel2))
NumPoints(tel1, tel2) == Min(Len(tel1), Len(tel2))

\* np.linspace(0, stop, num, dtype=int): num evenly spaced values from 0 to
\* stop, the last one stop itself, each truncated to an integer; a single
\* value is the start, 0.  (Evaluated exactly: rounding in the float product
\* can lower an interior index by one only where it is a whole number and
\* the step is not, which needs a trace of at least 7 samples.)
LinspaceInt(stop, num) ==
    [k \in 1..num |->
        IF num = 1 THEN 0
        ELSE IF k = num THEN stop
        ELSE RInt(R((k - 1) * stop, num - 1))]

\* np.linspace(0, stop, num) for a rational stop
LinspaceR(stop, num) ==
    [k \in 1..num |->
        IF num = 1 THEN Zero
        ELSE IF k = num THEN stop
        ELSE R((k - 1) * stop[1], (num - 1) * stop[2])]

\* [(tel['X'].iloc[i], tel['Y'].iloc[i]) for i in idx]
PositionsWorld(tel, idx) ==
    [k \in 1..Len(idx) |-> <<tel[idx[k] + 1].X, tel[idx[k] + 1].Y>>]

\* [tel['Distance'].iloc[i] for i in idx]
Distances(tel, idx) ==
    [k \in 1..Len(idx) |-> tel[idx[k] + 1].Distance]

\* abs(lap1['LapTime'].total_seconds() - lap2['LapTime'].total_seconds())
TimeDiff(t1, t2) == RAbs(RSub(t1, t2))

\* mutant: the comparison turned round
FasterDriverSlower(t1, t2) == IF RLess(t2, t1) THEN Driver1 ELSE Driver2

\* driver1 if lap1['LapTime'] < lap2['LapTime'] else driver2
FasterDriver(t1, t2) == IF RLess(t1, t2) THEN Driver1 ELSE Driver2

\* Series.max()
MaxDistance(telemetry) ==
    CHOOSE d \in {telemetry[i].Distance : i \in 1..Len(telemetry)} :
        \A i \in 1..Len(telemetry) : telemetry[i].Distance <= d

\* (telemetry['Distance'] - target).abs().idxmin(): the first sample whose
\* distance is closest to target (1-based here)
ClosestIndex(telemetry, target) ==
    LET off(i) == RAbs(RSub(R(telemetry[i].Distance, 1), target))
    IN  CHOOSE i \in 1..Len(telemetry) :
            /\ \A j \in 1..Len(telemetry) : RLeq(off(i), off(j))
            /\ \A j \in 1..(i - 1) : RLess(off(i), off(j))

Marker(sector, sample) ==
    [sector |-> sector, x |-> sample.X, y |-> sample.Y, distance |-> sample.Distance]

FindSectorMarkers(telemetry) ==
    LET total_distance == R(MaxDistance(telemetry), 1)
        sector1_end_dist == RDivInt(total_distance, 3)
        sector2_end_dist == RDivInt(RMul(R(2, 1), total_distance), 3)
        idx1 == ClosestIndex(telemetry, sector1_end_dist)
        idx2 == ClosestIndex(telemetry, sector2_end_dist)
    IN  <<Marker(1, telemetry[idx1]), Marker(2, telemetry[idx2])>>

\* mutant: the first boundary still counts as sector 1
SectorOfInclusive(markers, distance) ==
    IF Len(markers) < 2 THEN 1
    ELSE IF distance <= markers[1].distance THEN 1
    ELSE IF distance < markers[2].distance THEN 2
    ELSE 3

\* _get_current_sector(distance) for the markers found
SectorOf(markers, distance) ==
    IF Len(markers) < 2 THEN 1
    ELSE IF distance < markers[1].distance THEN 1
    ELSE IF distance < markers[2].distance THEN 2
    ELSE 3

GetCurrentSector(distance) == SectorOf(sector_markers, distance)

(***************************************************************************)
(* run_track_battle and the constructor, in program order.                 *)
(***************************************************************************)
\* __init__, lines 14-21: arcade.Window.__init__ creates and shows the
\* window; then the arguments are stored.
WindowInit ==
    /\ pc = "start"
    /\ window' = "open"
    /\ playback_speed' = speed_arg
    /\ pc' = "pick_laps"
    /\ UNCHANGED <<session, speed_arg, message, prepared, frame_index, paused,
                   event, history>>

\* __init__, lines 24-32: pick the fastest laps, raise ValueError if one is
\* missing.
PickLaps ==
    /\ pc = "pick_laps"
    /\ IF session.lap1 = NoLap \/ session.lap2 = NoLap
       THEN /\ pc' = "raised"
            /\ UNCHANGED <<lap1, lap2>>
       ELSE /\ pc' = "prepare"
            /\ lap1' = session.lap1
            /\ lap2' = session.lap2
    /\ UNCHANGED <<session, speed_arg, window, message, num_points,
                   positions1_world, positions2_world, distances1, distances2,
                   time1, time2, time_diff, faster_driver, sector_markers,
                   animation, event, history>>

\* __init__, lines 35-130: resample the telemetry, build the time arrays,
\* the time difference, the sector markers and the animation state.
Prepare ==
    /\ pc = "prepare"
    /\ LET tel1 == lap1.tel
           tel2 == lap2.tel
           n == NumPoints(tel1, tel2)
           idx1 == LinspaceInt(Len(tel1) - 1, n)
           idx2 == LinspaceInt(Len(tel2) - 1, n)
       IN  /\ num_points' = n
           /\ positions1_world' = PositionsWorld(tel1, idx1)
           /\ positions2_world' = PositionsWorld(tel2, idx2)
           /\ distances1' = Distances(tel1, idx1)
           /\ distances2' = Distances(tel2, idx2)
           /\ time1' = LinspaceR(lap1.LapTime, n)
           /\ time2' = LinspaceR(lap2.LapTime, n)
           /\ time_diff' = TimeDiff(lap1.LapTime, lap2.LapTime)
           /\ faster_driver' = FasterDriver(lap1.LapTime, lap2.LapTime)
           /\ sector_markers' = FindSectorMarkers(tel1)
    /\ frame_index' = Zero
    /\ paused' = FALSE
    /\ elapsed' = Zero
    /\ steady' = TRUE
    /\ pc' = "constructed"
    /\ UNCHANGED <<session, speed_arg, window, message, lap1, lap2,
                   playback_speed, event>>

\* run_track_battle, line 436: arcade.run() enters the event loop
ArcadeRun ==
    /\ pc = "constructed"
    /\ pc' = "running"
    /\ UNCHANGED <<session, speed_arg, window, message, prepared, animation,
                   event, history>>

\* run_track_battle, lines 437-438: the ValueError is caught and printed
ReportError ==
    /\ pc = "raised"
    /\ message' = "Error: Could not find valid laps"
    /\ pc' = "done"
    /\ UNCHANGED <<session, speed_arg, window, prepared, animation, event, history>>

(***************************************************************************)
(* The event loop's handlers.                                              *)
(***************************************************************************)
Dispatching == pc = "running" /\ window = "open"

\* mutant: the overshoot is carried over the wrap
NextFrameIndexCarry(cursor, delta_time, speed, n) ==
    LET advanced == RAdd(cursor, RMul(RMul(delta_time, R(FPS, 1)), speed))
    IN  IF RLeq(R(n, 1), advanced) THEN RSub(advanced, R(n, 1)) ELSE advanced

\* mutant: the cursor wraps only once it is past the sample count
NextFrameIndexStrict(cursor, delta_time, speed, n) ==
    LET advanced == RAdd(cursor, RMul(RMul(delta_time, R(FPS, 1)), speed))
    IN  IF RLess(R(n, 1), advanced) THEN Zero ELSE advanced

\* mutant: playback stops at the end of the lap
NextFrameIndexHold(cursor, delta_time, speed, n) ==
    LET advanced == RAdd(cursor, RMul(RMul(delta_time, R(FPS, 1)), speed))
    IN  IF RLeq(R(n, 1), advanced) THEN cursor ELSE advanced

\* on_update, lines 399-401: the cursor after a Running tick
NextFrameIndex(cursor, delta_time, speed, n) ==
    LET advanced == RAdd(cursor, RMul(RMul(delta_time, R(FPS, 1)), speed))
    IN  IF RLeq(R(n, 1), advanced) THEN Zero ELSE advanced

\* mutant: the paused flag is not looked at
FrameIndexAfterTickAlways(is_paused, cursor, delta_time, speed, n) ==
    NextFrameIndex(cursor, delta_time, speed, n)

\* on_update, lines 396-401: the cursor after a tick
FrameIndexAfterTick(is_paused, cursor, delta_time, speed, n) ==
    IF is_paused THEN cursor ELSE NextFrameIndex(cursor, delta_time, speed, n)

\* the frames the Running ticks counted in elapsed amount to at speed
Accumulated(seconds, speed) == RMul(RMul(seconds, R(FPS, 1)), speed)

\* History: elapsed adds up the delta_time of the Running ticks since the
\* cursor was last 0 (construction, reset, or the tick before wrapped), as
\* long as the speed stays as it was then (steady).
ElapsedAfterTick(delta_time) ==
    IF ~steady THEN Zero
    ELSE IF RLeq(R(num_points, 1), Accumulated(elapsed, playback_speed))
    THEN delta_time
    ELSE RAdd(elapsed, delta_time)

\* on_update(delta_time), lines 395-401
OnUpdate(delta_time) ==
    /\ Dispatching
    /\ event' = [type |-> "on_update", delta_time |-> delta_time]
    /\ frame_index' = FrameIndexAfterTick(paused, frame_index, delta_time,
                                          playback_speed, num_points)
    /\ IF paused
       THEN UNCHANGED history
       ELSE /\ steady' = (steady \/ frame_index' = Zero)
            /\ elapsed' = ElapsedAfterTick(delta_time)
    /\ UNCHANGED <<pc, session, speed_arg, window, message, prepared, paused,
                   playback_speed>>

\* mutant: a reset also resumes playback
PausedAfterKeyResume(symbol, is_paused) ==
    IF symbol = "SPACE" THEN ~is_paused
    ELSE IF symbol = "R" THEN FALSE
    ELSE is_paused

\* on_key_press, lines 404-405
PausedAfterKey(symbol, is_paused) ==
    IF symbol = "SPACE" THEN ~is_paused ELSE is_paused

\* on_key_press, lines 406-407
FrameIndexAfterKey(symbol, cursor) ==
    IF symbol = "R" THEN Zero ELSE cursor

\* on_key_press, lines 408-419
SpeedAfterKey(symbol, speed) ==
    CASE symbol = "UP" -> RMin(MAX_SPEED, RMul(speed, R(2, 1)))
      [] symbol = "DOWN" -> RMax(MIN_SPEED, RDivInt(speed, 2))
      [] symbol \in PresetKeys -> Preset(symbol)
      [] OTHER -> speed

\* on_key_press, lines 420-421: self.close()
WindowAfterKey(symbol, w) ==
    IF symbol = "ESCAPE" THEN "closed" ELSE w

\* on_key_press(symbol, modifiers), lines 403-421; a symbol the chain does
\* not test for changes nothing
OnKeyPress(symbol) ==
    /\ Dispatching
    /\ event' = [type |-> "on_key_press", symbol |-> symbol]
    /\ paused' = PausedAfterKey(symbol, paused)
    /\ frame_index' = FrameIndexAfterKey(symbol, frame_index)
    /\ playback_speed' = SpeedAfterKey(symbol, playback_speed)
    /\ window' = WindowAfterKey(symbol, window)
    /\ steady' = IF symbol = "R" THEN TRUE
                 ELSE IF symbol \in SpeedKeys THEN frame_index = Zero
                 ELSE steady
    /\ elapsed' = IF symbol = "R" \/ symbol \in SpeedKeys THEN Zero ELSE elapsed
    /\ UNCHANGED <<pc, session, speed_arg, message, prepared>>

\* on_draw, line 264: the frame drawn
Frame == Min(RInt(frame_index), num_points - 1)

\* a Python sequence accepts the index i
ValidIndex(seq, i) == -Len(seq) <= i /\ i < Len(seq)

\* on_draw reads positions (lines 286-294), times and distances (317-354) at
\* the frame when frame < num_points
DrawIndexesValid ==
    Frame < num_points =>
        /\ ValidIndex(positions1_world, Frame)
        /\ ValidIndex(positions2_world, Frame)
        /\ ValidIndex(time1, Frame)
        /\ ValidIndex(time2, Frame)
        /\ ValidIndex(distances1, Frame)
        /\ ValidIndex(distances2, Frame)

\* on_draw, lines 241-393: renders the state and changes none of it; an
\* index out of range raises IndexError, which run_track_battle does not
\* catch
OnDraw ==
    /\ Dispatching
    /\ event' = [type |-> "on_draw"]
    /\ pc' = IF DrawIndexesValid THEN pc ELSE "crashed"
    /\ UNCHANGED <<session, speed_arg, window, message, prepared, animation, history>>

\* arcade.run() returns once the window is closed
RunReturns ==
    /\ pc = "running"
    /\ window = "closed"
    /\ pc' = "done"
    /\ UNCHANGED <<session, speed_arg, window, message, prepared, animation,
                   event, history>>

\* the symbols dispatched: those on_key_press tests for, and one it does not
DispatchedKeys == Keys \cup {"A"}

Tick == \E delta_time \in DeltaTimes : OnUpdate(delta_time)

KeyPress == \E symbol \in DispatchedKeys : OnKeyPress(symbol)

Next ==
    \/ WindowInit
    \/ PickLaps
    \/ Prepare
    \/ ArcadeRun
    \/ ReportError
    \/ Tick
    \/ KeyPress
    \/ OnDraw
    \/ RunReturns

Spec == Init /\ [][Next]_vars

\* the preparation alone, over every pair of laps within the bounds
NextPrep ==
    \/ WindowInit
    \/ PickLaps
    \/ Prepare
    \/ ArcadeRun
    \/ ReportError
    \/ OnDraw

SpecPrep == InitPrep /\ [][NextPrep]_vars

\* arcade calls on_update once per frame while the window is open, with the
\* time since the last call
PositiveTick ==
    \E delta_time \in DeltaTimes : RLess(Zero, delta_time) /\ OnUpdate(delta_time)

FairSpec == Spec /\ WF_vars(PositiveTick)

(***************************************************************************)
(* Properties.                                                             *)
(***************************************************************************)
\* the constructor has returned a window
Constructed ==
    \/ pc \in {"constructed", "running", "crashed"}
    \/ pc = "done" /\ message = ""

SpeedInRange == RLeq(MIN_SPEED, playback_speed) /\ RLeq(playback_speed, MAX_SPEED)

LapMissing == session.lap1 = NoLap \/ session.lap2 = NoLap

KeyEvent(symbol) == [type |-> "on_key_press", symbol |-> symbol]

\* C1: once the window holds a playback speed, after any sequence of UP,
\* DOWN and preset keys (the empty one included), the speed lies within
\* [0.25, 4.0], whatever playback_speed the constructor was given.
C1_SpeedWithinRange == pc # "start" => SpeedInRange

\* C2: when lap1 or lap2 is missing, no window is ever created, the event
\* loop is never entered, and the run ends with the error message printed.
C2_ErrorBeforeWindow ==
    LapMissing =>
        /\ window = "none"
        /\ pc \notin {"constructed", "running", "crashed"}
        /\ pc = "done" => message # ""

\* the frames the cursor would hold without the wrap
AccumulatedFrames == Accumulated(elapsed, playback_speed)

\* C3, as a state: while the speed is held since the cursor was last 0, the
\* cursor is the accumulated advance of the Running ticks, and 0 once that
\* advance is the sample count or more.
CursorFollowsElapsed ==
    Constructed /\ steady =>
        IF RLeq(R(num_points, 1), AccumulatedFrames)
        THEN frame_index = Zero
        ELSE frame_index = AccumulatedFrames

\* C3, as a step: a Running tick whose advance brings the cursor to the
\* sample count or beyond leaves the cursor 0.
WrapDiscardsOvershoot ==
    Dispatching /\ event'.type = "on_update" /\ ~paused =>
        LET advance == RMul(RMul(event'.delta_time, R(FPS, 1)), playback_speed)
        IN  RLeq(R(num_points, 1), RAdd(frame_index, advance)) => frame_index' = Zero

C4_KeyEffects ==
    [][Dispatching /\ event'.type = "on_key_press" =>
        /\ event'.symbol = "SPACE" =>
              paused' = ~paused /\ UNCHANGED <<frame_index, playback_speed>>
        /\ event'.symbol = "R" =>
              frame_index' = Zero /\ UNCHANGED <<paused, playback_speed>>
        /\ event'.symbol \in SpeedKeys =>
              UNCHANGED <<paused, frame_index>>]_vars

\* R was pressed while Paused, mid-lap speed already changed: still Paused
C4_Witness ==
    /\ Dispatching
    /\ event = KeyEvent("R")
    /\ paused
    /\ frame_index = Zero
    /\ playback_speed = R(2, 1)
    /\ speed_arg = R(1, 1)

\* C5: a tick received while Paused leaves cursor, speed and flag as they
\* were; the cursor changes only through a Running tick or the reset key.
C5_PausedTickNoAdvance ==
    [][Dispatching =>
        /\ event'.type = "on_update" /\ paused =>
              UNCHANGED <<frame_index, playback_speed, paused>>
        /\ frame_index' # frame_index =>
              \/ event'.type = "on_update" /\ ~paused
              \/ event' = KeyEvent("R")]_vars

\* a tick with positive delta_time arrived while Paused mid-lap
C5_Witness ==
    /\ Dispatching
    /\ event.type = "on_update"
    /\ RLess(Zero, event.delta_time)
    /\ paused
    /\ frame_index # Zero

\* the sample of trace tel that entry k of positions and distances holds
IsSampleOf(tel, positions, distances, k) ==
    \E i \in 0..(Len(tel) - 1) :
        /\ positions[k] = <<tel[i + 1].X, tel[i + 1].Y>>
        /\ distances[k] = tel[i + 1].Distance

\* the positions' sample indices (their X) do not decrease
IndicesNonDecreasing(positions) ==
    \A k \in 1..(Len(positions) - 1) : positions[k][1] <= positions[k + 1][1]

\* C6: for traces of lengths L1, L2 >= 1 the sample count is min(L1, L2),
\* both position arrays and both distance arrays have that length, and each
\* entry is a sample of its own trace, the selected indices non-decreasing.
C6_ResampledCount ==
    Constructed =>
        LET tel1 == session.lap1.tel
            tel2 == session.lap2.tel
            shorter == IF Len(tel1) <= Len(tel2) THEN Len(tel1) ELSE Len(tel2)
        IN  /\ num_points = shorter
            /\ Len(positions1_world) = shorter
            /\ Len(positions2_world) = shorter
            /\ Len(distances1) = shorter
            /\ Len(distances2) = shorter
            /\ \A k \in 1..shorter :
                  /\ IsSampleOf(tel1, positions1_world, distances1, k)
                  /\ IsSampleOf(tel2, positions2_world, distances2, k)
            /\ IndicesNonDecreasing(positions1_world)
            /\ IndicesNonDecreasing(positions2_world)

\* a trace of 3 samples resampled to the 2 of the other: samples 0 and 2
C6_Witness ==
    /\ Constructed
    /\ Len(session.lap1.tel) = 3
    /\ Len(session.lap2.tel) = 2
    /\ positions1_world = <<<<0, 0>>, <<2, 0>>>>
    /\ positions2_world = <<<<0, 0>>, <<1, 0>>>>

\* the distances classified: every sample distance, and one beyond
ProbeDistances == 0..(MaxDist + 1)

Boundary1 == sector_markers[1].distance

Boundary2 == sector_markers[2].distance

\* C7 as claimed: d < b1 is sector 1, d = b1 is sector 2, as is any
\* b1 <= d < b2, and d >= b2 is sector 3, for the boundaries b1 <= b2 that
\* _find_sector_markers produced.
C7_BoundaryIsSector2 ==
    Constructed =>
        /\ Boundary1 <= Boundary2
        /\ \A d \in ProbeDistances :
              /\ d < Boundary1 => GetCurrentSector(d) = 1
              /\ d = Boundary1 => GetCurrentSector(d) = 2
              /\ Boundary1 <= d /\ d < Boundary2 => GetCurrentSector(d) = 2
              /\ d >= Boundary2 => GetCurrentSector(d) = 3

\* C7, amended: d < b1 is sector 1, b1 <= d < b2 is sector 2 and d >= b2 is
\* sector 3, with b1 <= b2; so d = b1 is sector 2 when b1 < b2, and sector 3
\* when the two boundaries coincide.
C7_SectorClassification ==
    Constructed =>
        /\ Boundary1 <= Boundary2
        /\ \A d \in ProbeDistances :
              /\ d < Boundary1 => GetCurrentSector(d) = 1
              /\ Boundary1 <= d /\ d < Boundary2 => GetCurrentSector(d) = 2
              /\ d >= Boundary2 => GetCurrentSector(d) = 3
              /\ d = Boundary1 =>
                    GetCurrentSector(d) = IF Boundary1 < Boundary2 THEN 2 ELSE 3

\* distinct boundaries, with a distance below, at and between them
C7_Witness ==
    /\ Constructed
    /\ 0 < Boundary1
    /\ Boundary1 < Boundary2
    /\ GetCurrentSector(Boundary1 - 1) = 1
    /\ GetCurrentSector(Boundary1) = 2
    /\ GetCurrentSector(Boundary2) = 3

\* on_draw, line 376: "<faster_driver> faster by <time_diff>s"
DiffText == [faster |-> faster_driver, by |-> time_diff]

\* |t1 - t2|
Gap(t1, t2) == IF RLess(t1, t2) THEN RSub(t2, t1) ELSE RSub(t1, t2)

\* C8 as claimed: the difference is |t1 - t2| and the driver the HUD reports
\* as faster is the one whose lap time is smaller.
C8_FasterIsSmaller ==
    Constructed =>
        LET t1 == session.lap1.LapTime
            t2 == session.lap2.LapTime
        IN  /\ DiffText.by = Gap(t1, t2)
            /\ DiffText.faster = Driver1 => RLess(t1, t2)
            /\ DiffText.faster = Driver2 => RLess(t2, t1)

\* C8, amended: the difference is |t1 - t2|; the HUD reports driver1 as
\* faster when t1 < t2 and driver2 when t2 < t1; when the lap times are
\* equal it reports driver2, faster by 0.
C8_FasterLap ==
    Constructed =>
        LET t1 == session.lap1.LapTime
            t2 == session.lap2.LapTime
        IN  /\ DiffText.by = Gap(t1, t2)
            /\ RLess(t1, t2) => DiffText.faster = Driver1
            /\ RLess(t2, t1) => DiffText.faster = Driver2
            /\ t1 = t2 => DiffText = [faster |-> Driver2, by |-> Zero]

\* 91.234 s against 92.876 s, drawn: driver1 faster by 1.642 s
C8_Witness ==
    /\ Dispatching
    /\ event.type = "on_draw"
    /\ session.lap1.LapTime = R(91234, 1000)
    /\ session.lap2.LapTime = R(92876, 1000)
    /\ DiffText = [faster |-> Driver1, by |-> R(1642, 1000)]

\* the last event was a Running tick with positive delta_time that wrapped
\* the cursor (the speed being positive, it would otherwise be past 0)
Wrapped ==
    /\ Dispatching
    /\ event.type = "on_update"
    /\ RLess(Zero, event.delta_time)
    /\ ~paused
    /\ frame_index = Zero

KeepsRunning == Dispatching /\ ~paused /\ SpeedInRange

\* no tick pauses the animation or ends the run
TickLeavesRunning ==
    Dispatching /\ event'.type = "on_update" =>
        paused' = paused /\ window' = window /\ pc' = pc

\* C9 as claimed: if from some point on the window is open, the state is
\* Running and the speed within [0.25, 4.0], with ticks of positive
\* delta_time arriving, the cursor wraps to 0 infinitely often; and no tick
\* pauses the animation or closes the window.
C9_AlwaysWrapsAgain ==
    /\ <>[]KeepsRunning => []<>Wrapped
    /\ [][TickLeavesRunning]_vars

\* C9, amended: the same, in the runs where the reset key is also pressed
\* only finitely often.
C9_LoopsForever ==
    /\ <>[](KeepsRunning /\ event # KeyEvent("R")) => []<>Wrapped
    /\ [][TickLeavesRunning]_vars

\* a wrap of a lap of several samples at a speed within the range
C9_Witness ==
    /\ Wrapped
    /\ SpeedInRange
    /\ num_points > 1
    /\ speed_arg = R(3, 2)

\* the array has one entry per sample and the frame drawn is one of them
IndexesAll(arr) == Len(arr) = num_points /\ Frame + 1 \in DOMAIN arr

\* C10: with N >= 1 samples the cursor stays in [0, N), so the frame on_draw
\* uses, min(int(cursor), N - 1), is int(cursor) and indexes every array.
C10_FrameIndexValid ==
    Constructed =>
        /\ num_points >= 1
        /\ RLeq(Zero, frame_index)
        /\ RLess(frame_index, R(num_points, 1))
        /\ Frame = RInt(frame_index)
        /\ Frame \in 0..(num_points - 1)
        /\ IndexesAll(positions1_world) /\ IndexesAll(positions2_world)
        /\ IndexesAll(distances1) /\ IndexesAll(distances2)
        /\ IndexesAll(time1) /\ IndexesAll(time2)
        /\ pc # "crashed"

\* the last frame drawn from a fractional cursor
C10_Witness ==
    /\ Dispatching
    /\ event.type = "on_draw"
    /\ num_points = 3
    /\ Frame = num_points - 1
    /\ frame_index # R(Frame, 1)

=============================================================================
